---- MODULE Spec2Model ----
(***************************************************************************)
(* Chat session and chat message endpoints of the backend:                 *)
(*   app/api/v1/endpoints/chat_session.py  (create / get / list sessions)  *)
(*   app/api/v1/endpoints/chat_message.py  (create / bulk-create messages) *)
(*   app/models/mongodb/chat_session.py    (the ChatSession document)      *)
(*                                                                         *)
(* Python values are modelled as follows.                                  *)
(*   Optional[T]      None is <<>>, a present value v is <<v>>             *)
(*   str (ids, names) TLA+ strings; session_id texts are sequences of      *)
(*                    one-character strings, so that substring and regex   *)
(*                    matching can be computed                             *)
(*   datetime         naturals 1..MaxTime, all of one timezone awareness   *)
(*   ObjectId         [oid |-> hex], built from a well-formed hex string   *)
(***************************************************************************)
EXTENDS Integers, Sequences, FiniteSets, TLC

VARIABLES
    sessions,        \* chat_sessions collection: ObjectId -> document
    messages,        \* chat_messages collection: set of documents
    pc,              \* position of the list_chat_sessions request in flight
    req,             \* its query parameters
    query,           \* the filter dict it built
    total,           \* result of the count query
    resp,            \* HTTP response of the last list/get request
    qlog,            \* store queries issued by the list request, in order
    prev,            \* the previous 200 list response, while the store is unchanged
    dirty,           \* a session was written between the count and the fetch in flight
    call,            \* the last get-session or message request and what it created
    chat_calls,      \* trigger_chat_workflow calls of that request
    suggestion_calls \* trigger_suggestion_workflow calls of that request

vars == <<sessions, messages, pc, req, query, total, resp, qlog, prev, dirty,
          call, chat_calls, suggestion_calls>>

listVars == <<pc, req, query, total, resp, qlog, prev, dirty>>
msgVars  == <<call, chat_calls, suggestion_calls>>

-----------------------------------------------------------------------------
(* Bounds of the model *)

MaxTime == 2        \* datetimes are 1..MaxTime
MaxSupplied == 3    \* optional filters supplied together in one list request
MaxSkip == 1        \* greatest skip of the filter and concurrent specifications
MaxLimit == 2       \* greatest limit of a request (the endpoint allows 1..100)
MaxPageSkip == 3    \* skip in 0..MaxPageSkip in the pagination specification
MaxStrLen == 3      \* stored session_id texts have at most this many characters
MaxPatLen == 2      \* session_id filter texts have at most this many characters
MaxCreated == 2     \* sessions created by create_chat_session in one run
MaxBatch == 2       \* messages in one bulk request
MaxMessages == 3    \* messages created in one run of the message endpoints

-----------------------------------------------------------------------------
(* Python values *)

None == <<>>
Some(v) == <<v>>
Val(o) == o[1]

Min(a, b) == IF a < b THEN a ELSE b
Max(a, b) == IF a > b THEN a ELSE b

Times == 1..MaxTime

\* bool(x) of an Optional[str]: None and "" are falsy
TruthyStr(o) == o # None /\ Val(o) # ""
\* bool(x) of an Optional[datetime]: every datetime is truthy
TruthyDate(o) == o # None
\* bool(x) of an Optional text (sequence of characters)
TruthyText(o) == o # None /\ Val(o) # <<>>

\* Well-formed ObjectId hex strings of the model; any other string is malformed
SessionHexSeq == <<"5e01", "5e02", "5e03", "5e04">>
SessionHex == {SessionHexSeq[i] : i \in DOMAIN SessionHexSeq}
ClientHex == {"c1a0"}
ChannelHex == {"c4a0"}
MessageHex == <<"a001", "a002", "a003", "a004", "a005">>
HexStrings == SessionHex \cup ClientHex \cup ChannelHex
                \cup {MessageHex[i] : i \in DOMAIN MessageHex}
BadHex == "xyz"

\* bson.ObjectId(s): raises InvalidId unless s is a well-formed hex string
IsValidOid(s) == s \in HexStrings
ObjectId(s) == [oid |-> s]
\* str(ObjectId)
Str(o) == o.oid

-----------------------------------------------------------------------------
(* Case-insensitive regular expressions (the iregex operator), for the     *)
(* fragment of patterns made of letters, "." (any character) and "(" (an   *)
(* opening parenthesis that nothing closes: the pattern does not compile)  *)

Letters == {"a", "b", "A", "B"}
Alphabet == Letters \cup {"."}
PatternAlphabet == Alphabet \cup {"("}

\* re.compile(p) raises
RegexInvalid(p) == \E i \in 1..Len(p) : p[i] = "("

\* A faulty variant: a case-sensitive match ("regex" instead of "iregex")
LowerIdentity(c) == c

\* re.IGNORECASE folds the two cases of a letter together
Lower(c) == CASE c = "A" -> "a" [] c = "B" -> "b" [] OTHER -> c

\* pattern p matches text t at position k (1-based), unanchored prefix match
MatchesAt(p, t, k) ==
    /\ k + Len(p) - 1 <= Len(t)
    /\ \A i \in 1..Len(p) : p[i] = "." \/ Lower(p[i]) = Lower(t[k + i - 1])

\* re.search(p, t, re.IGNORECASE)
IRegexSearch(p, t) == \E k \in 1..(Len(t) + 1) : MatchesAt(p, t, k)

-----------------------------------------------------------------------------
(* ChatSession documents and the filter dict *)

\* ChatSession(): the field defaults of the document class
DefaultSession(t) ==
    [session_id |-> None, client |-> None, client_channel |-> None,
     active |-> TRUE, has_handover |-> FALSE, created_at |-> t, updated_at |-> t]

EmptyQuery ==
    [client |-> None, client_channel |-> None, active |-> None,
     updated_at__gte |-> None, updated_at__lte |-> None, has_handover |-> None,
     session_id__iregex |-> None, id__in |-> None]

\* The ObjectId conversions of the filter construction raise on malformed ids
BuildRaises(r) ==
    \/ TruthyStr(r.client_id) /\ ~IsValidOid(Val(r.client_id))
    \/ TruthyStr(r.client_channel) /\ ~IsValidOid(Val(r.client_channel))

\* A faulty variant: "if active:" / "if handover:" instead of "is not None"
BuildQueryTruthyFlags(r) ==
    [client |-> IF TruthyStr(r.client_id) THEN Some(ObjectId(Val(r.client_id))) ELSE None,
     client_channel |-> IF TruthyStr(r.client_channel)
                        THEN Some(ObjectId(Val(r.client_channel))) ELSE None,
     active |-> IF r.active # None /\ Val(r.active) THEN r.active ELSE None,
     updated_at__gte |-> IF TruthyDate(r.start_date) THEN r.start_date ELSE None,
     updated_at__lte |-> IF TruthyDate(r.end_date) THEN r.end_date ELSE None,
     has_handover |-> IF r.handover # None /\ Val(r.handover) THEN r.handover ELSE None,
     session_id__iregex |-> IF TruthyText(r.session_id) THEN r.session_id ELSE None,
     id__in |-> None]

\* The filter dict built from the query parameters, before the user_id lookup
BuildQuery(r) ==
    [client |-> IF TruthyStr(r.client_id) THEN Some(ObjectId(Val(r.client_id))) ELSE None,
     client_channel |-> IF TruthyStr(r.client_channel)
                        THEN Some(ObjectId(Val(r.client_channel))) ELSE None,
     active |-> IF r.active # None THEN r.active ELSE None,
     updated_at__gte |-> IF TruthyDate(r.start_date) THEN r.start_date ELSE None,
     updated_at__lte |-> IF TruthyDate(r.end_date) THEN r.end_date ELSE None,
     has_handover |-> IF r.handover # None THEN r.handover ELSE None,
     session_id__iregex |-> IF TruthyText(r.session_id) THEN r.session_id ELSE None,
     id__in |-> None]

\* A document satisfies the filter dict (every key present narrows the result)
DocMatches(q, id, d) ==
    /\ q.client # None => d.client = q.client
    /\ q.client_channel # None => d.client_channel = q.client_channel
    /\ q.active # None => d.active = Val(q.active)
    /\ q.updated_at__gte # None => d.updated_at >= Val(q.updated_at__gte)
    /\ q.updated_at__lte # None => d.updated_at <= Val(q.updated_at__lte)
    /\ q.has_handover # None => d.has_handover = Val(q.has_handover)
    /\ q.session_id__iregex # None =>
           d.session_id # None /\ IRegexSearch(Val(q.session_id__iregex), Val(d.session_id))
    /\ q.id__in # None => id \in Val(q.id__in)

\* ChatSession.objects.filter(**query): ids of the matching documents
FilterIds(q) == {id \in DOMAIN sessions : DocMatches(q, id, sessions[id])}

\* A faulty variant: the count taken after the pagination
CountQueryPaged(q) == Min(Cardinality(FilterIds(q)), req.limit)

\* .count()
CountQuery(q) == Cardinality(FilterIds(q))

\* .order_by("-updated_at"): the orders the store may return the documents in;
\* the relative order of documents with equal updated_at is not determined
Orderings(ids) ==
    LET n == Cardinality(ids) IN
    {o \in [1..n -> ids] :
        /\ \A i, j \in 1..n : i # j => o[i] # o[j]
        /\ \A i, j \in 1..n : i < j => sessions[o[i]].updated_at >= sessions[o[j]].updated_at}

\* A faulty variant: the limit not applied
SkipLimitUnlimited(o, skip, limit) == SubSeq(o, skip + 1, Len(o))

\* .skip(skip).limit(limit)
SkipLimit(o, skip, limit) == SubSeq(o, skip + 1, Min(skip + limit, Len(o)))

\* ChatSessionResponse(...) of one stored session
SessionView(id) ==
    LET d == sessions[id] IN
    [id |-> Str(id),
     updated_at |-> d.updated_at,
     session_id |-> IF TruthyText(d.session_id) THEN Val(d.session_id) ELSE <<>>,
     active |-> d.active,
     client |-> IF d.client # None THEN Some(Str(Val(d.client))) ELSE None,
     client_channel |-> IF d.client_channel # None
                        THEN Some(Str(Val(d.client_channel))) ELSE None,
     handover |-> d.has_handover]

\* A faulty variant: the sender filter of the lookup forgotten
DistinctSessionsAnySender(user) == {m.session : m \in messages}

\* ChatMessage.objects.filter(sender=user_id).distinct("session")
DistinctSessions(user) == {m.session : m \in {x \in messages : x.sender = user}}

-----------------------------------------------------------------------------
(* list_chat_sessions.  The handler runs from its first statement to its    *)
(* return without yielding; it is split at its two session queries, between *)
(* which other processes may write to the store (specification SpecConc).   *)

NoResp == [status |-> 0, sessions |-> <<>>, total |-> 0]
NoReq ==
    [client_id |-> None, client_channel |-> None, user_id |-> None, session_id |-> None,
     active |-> None, handover |-> None, start_date |-> None, end_date |-> None,
     skip |-> 0, limit |-> 1]

\* A faulty variant: the comparison of the two dates reversed
InvalidRangeReversed(r) ==
    TruthyDate(r.start_date) /\ TruthyDate(r.end_date) /\ Val(r.start_date) < Val(r.end_date)

\* if start_date and end_date and end_date < start_date
InvalidRange(r) ==
    TruthyDate(r.start_date) /\ TruthyDate(r.end_date) /\ Val(r.end_date) < Val(r.start_date)

\* Validation, filter construction and user_id lookup
ListStart(r) ==
    /\ pc = "idle"
    /\ req' = r
    /\ total' = 0
    /\ IF InvalidRange(r)
       THEN /\ resp' = [status |-> 400, sessions |-> <<>>, total |-> 0]
            /\ pc' = "done" /\ query' = EmptyQuery /\ qlog' = <<>>
       ELSE IF BuildRaises(r)
       THEN /\ resp' = [status |-> 500, sessions |-> <<>>, total |-> 0]
            /\ pc' = "done" /\ query' = EmptyQuery /\ qlog' = <<>>
       ELSE IF TruthyStr(r.user_id)
       THEN /\ qlog' = <<"messages.distinct">>
            /\ IF DistinctSessions(Val(r.user_id)) = {}
               THEN /\ resp' = [status |-> 200, sessions |-> <<>>, total |-> 0]
                    /\ pc' = "done" /\ query' = BuildQuery(r)
               ELSE /\ query' = [BuildQuery(r) EXCEPT
                                   !.id__in = Some(DistinctSessions(Val(r.user_id)))]
                    /\ pc' = "count" /\ resp' = NoResp
       ELSE /\ query' = BuildQuery(r) /\ qlog' = <<>>
            /\ pc' = "count" /\ resp' = NoResp
    /\ dirty' = FALSE
    /\ UNCHANGED <<sessions, messages, prev, msgVars>>

\* total = ChatSession.objects.filter(**query).count(); a pattern that does not
\* compile raises as the query is built, and the handler answers 500
ListCount ==
    /\ pc = "count"
    /\ IF query.session_id__iregex # None /\ RegexInvalid(Val(query.session_id__iregex))
       THEN /\ resp' = [status |-> 500, sessions |-> <<>>, total |-> 0]
            /\ pc' = "done"
            /\ UNCHANGED <<total, qlog>>
       ELSE /\ total' = CountQuery(query)
            /\ qlog' = Append(qlog, "sessions.count")
            /\ pc' = "fetch"
            /\ resp' = resp
    /\ dirty' = FALSE
    /\ UNCHANGED <<sessions, messages, req, query, prev, msgVars>>

\* The paginated fetch, the response formatting and the return
ListFetch ==
    /\ pc = "fetch"
    /\ \E o \in Orderings(FilterIds(query)) :
          LET page == SkipLimit(o, req.skip, req.limit) IN
          resp' = [status |-> 200,
                   sessions |-> [i \in 1..Len(page) |-> SessionView(page[i])],
                   total |-> total]
    /\ qlog' = Append(qlog, "sessions.find")
    /\ pc' = "done"
    /\ UNCHANGED <<sessions, messages, req, query, total, prev, dirty, msgVars>>

\* The response has been sent; the next request may start
ListReturn ==
    /\ pc = "done"
    /\ pc' = "idle"
    /\ req' = NoReq /\ query' = EmptyQuery /\ total' = 0 /\ resp' = NoResp /\ qlog' = <<>>
    /\ prev' = None /\ dirty' = FALSE
    /\ UNCHANGED <<sessions, messages, msgVars>>

\* The same return, with the response kept for comparison with the next one
ListReturnKeep ==
    /\ pc = "done"
    /\ pc' = "idle"
    /\ prev' = IF resp.status = 200
               THEN Some([req |-> req, total |-> resp.total,
                          ids |-> [i \in 1..Len(resp.sessions) |-> resp.sessions[i].id]])
               ELSE None
    /\ req' = NoReq /\ query' = EmptyQuery /\ total' = 0 /\ resp' = NoResp /\ qlog' = <<>>
    /\ dirty' = FALSE
    /\ UNCHANGED <<sessions, messages, msgVars>>

-----------------------------------------------------------------------------
(* Requests of the filter specification *)

OptOf(S) == {None} \cup {Some(v) : v \in S}

Supplied(r) ==
    LET n(o) == IF o = None THEN 0 ELSE 1 IN
    n(r.client_id) + n(r.client_channel) + n(r.user_id) + n(r.session_id)
      + n(r.active) + n(r.handover) + n(r.start_date) + n(r.end_date)

FilterReqs ==
    {r \in [client_id : OptOf({"c1a0", BadHex}), client_channel : OptOf({"c4a0"}),
            user_id : OptOf({"u1", "u2"}), session_id : OptOf({<<"a">>}),
            active : OptOf(BOOLEAN), handover : OptOf(BOOLEAN),
            start_date : OptOf(Times), end_date : OptOf(Times),
            skip : {0, MaxSkip}, limit : {1, MaxLimit}] : Supplied(r) <= MaxSupplied}

FilterDocs ==
    [session_id : {None, Some(<<"b", "A">>)}, client : OptOf({ObjectId("c1a0")}),
     client_channel : {Some(ObjectId("c4a0"))}, active : BOOLEAN, has_handover : BOOLEAN,
     created_at : {1}, updated_at : Times]

Msg(i, user, sid, t) ==
    [id |-> ObjectId(MessageHex[i]), sender |-> user, session |-> ObjectId(sid),
     session_id |-> sid, created_at |-> t]

Init ==
    /\ \E d \in FilterDocs :
          sessions = [id \in {ObjectId("5e01"), ObjectId("5e02")} |->
                         IF id = ObjectId("5e01") THEN d ELSE DefaultSession(MaxTime)]
    /\ messages \in SUBSET {Msg(1, "u1", "5e01", 1)}
    /\ pc = "idle" /\ req = NoReq /\ query = EmptyQuery /\ total = 0
    /\ resp = NoResp /\ qlog = <<>> /\ prev = None /\ dirty = FALSE
    /\ call = None /\ chat_calls = <<>> /\ suggestion_calls = <<>>

Next ==
    \/ (pc = "idle" /\ \E r \in FilterReqs : ListStart(r))
    \/ ListCount
    \/ ListFetch
    \/ ListReturn

Spec == Init /\ [][Next]_vars

-----------------------------------------------------------------------------
(* Pagination: consecutive list requests on an unchanged store *)

PageReqs ==
    {[NoReq EXCEPT !.active = a, !.skip = k, !.limit = l] :
        a \in {None, Some(TRUE)}, k \in 0..MaxPageSkip, l \in 1..MaxLimit}

InitPage ==
    /\ \E t \in [{"5e01", "5e02", "5e03"} -> Times] : \E a \in BOOLEAN :
          sessions = [id \in {ObjectId("5e01"), ObjectId("5e02"), ObjectId("5e03")} |->
                         [DefaultSession(t[Str(id)]) EXCEPT
                            !.active = IF id = ObjectId("5e03") THEN a ELSE TRUE]]
    /\ messages = {}
    /\ pc = "idle" /\ req = NoReq /\ query = EmptyQuery /\ total = 0
    /\ resp = NoResp /\ qlog = <<>> /\ prev = None /\ dirty = FALSE
    /\ call = None /\ chat_calls = <<>> /\ suggestion_calls = <<>>

NextPage ==
    \/ (pc = "idle" /\ \E r \in PageReqs : ListStart(r))
    \/ ListCount
    \/ ListFetch
    \/ ListReturnKeep

SpecPage == InitPage /\ [][NextPage]_vars

-----------------------------------------------------------------------------
(* create_chat_session, and the writes of other processes to a session *)

\* The id of a new document: one no stored document has (the first unused one)
FreshSessionId ==
    ObjectId(SessionHexSeq[CHOOSE i \in DOMAIN SessionHexSeq :
                 /\ ObjectId(SessionHexSeq[i]) \notin DOMAIN sessions
                 /\ \A j \in 1..(i - 1) : ObjectId(SessionHexSeq[j]) \in DOMAIN sessions])

\* session = ChatSession(); session.save(); the id is new and the timestamps
\* are the clock's reading
CreateChatSession ==
    /\ Cardinality(DOMAIN sessions) < MaxCreated
    /\ \E t \in Times :
          LET id == FreshSessionId IN
          /\ sessions' = [x \in DOMAIN sessions \cup {id} |->
                             IF x = id THEN DefaultSession(t) ELSE sessions[x]]
          /\ call' = Some([kind |-> "create_session", session_id |-> Str(id)])
    /\ dirty' = (pc = "fetch")
    /\ UNCHANGED <<messages, pc, req, query, total, resp, qlog, prev,
                   chat_calls, suggestion_calls>>

\* Message handling elsewhere changes a session: its active flag and its update
\* timestamp (the handover flag and the participants, which no request of the
\* concurrent specification filters on, are left out)
UpdateSession ==
    /\ \E id \in DOMAIN sessions : \E a \in BOOLEAN : \E t \in Times :
          /\ t >= sessions[id].updated_at
          /\ sessions' = [sessions EXCEPT ![id].active = a, ![id].updated_at = t]
          /\ sessions' # sessions
    /\ dirty' = (pc = "fetch")
    /\ UNCHANGED <<messages, pc, req, query, total, resp, qlog, prev, msgVars>>

ConcReqs ==
    {[NoReq EXCEPT !.active = a, !.skip = k, !.limit = l] :
        a \in OptOf(BOOLEAN), k \in 0..MaxSkip, l \in 1..MaxLimit}

InitConc ==
    /\ sessions = [id \in {} |-> DefaultSession(1)]
    /\ messages = {}
    /\ pc = "idle" /\ req = NoReq /\ query = EmptyQuery /\ total = 0
    /\ resp = NoResp /\ qlog = <<>> /\ prev = None /\ dirty = FALSE
    /\ call = None /\ chat_calls = <<>> /\ suggestion_calls = <<>>

\* Other processes write while the list request is between its two queries; a
\* write after the response is built is a write after the request
NextConc ==
    \/ (pc = "idle" /\ \E r \in ConcReqs : ListStart(r))
    \/ ListCount
    \/ ListFetch
    \/ ListReturn
    \/ (pc # "done" /\ CreateChatSession)
    \/ (pc # "done" /\ UpdateSession)

SpecConc == InitConc /\ [][NextConc]_vars

-----------------------------------------------------------------------------
(* The session_id filter alone, on one stored session *)

RECURSIVE TextsOf(_, _)
TextsOf(chars, n) ==
    IF n = 0 THEN {<<>>}
    ELSE LET shorter == TextsOf(chars, n - 1) IN
         shorter \cup {Append(t, c) : t \in shorter, c \in chars}

RegexReqs ==
    {[NoReq EXCEPT !.session_id = Some(f)] : f \in TextsOf(PatternAlphabet, MaxPatLen) \ {<<>>}}

InitRegex ==
    /\ \E sid \in OptOf(TextsOf(Alphabet, MaxStrLen)) :
          sessions = [id \in {ObjectId("5e01")} |-> [DefaultSession(1) EXCEPT !.session_id = sid]]
    /\ messages = {}
    /\ pc = "idle" /\ req = NoReq /\ query = EmptyQuery /\ total = 0
    /\ resp = NoResp /\ qlog = <<>> /\ prev = None /\ dirty = FALSE
    /\ call = None /\ chat_calls = <<>> /\ suggestion_calls = <<>>

NextRegex ==
    \/ (pc = "idle" /\ \E r \in RegexReqs : ListStart(r))
    \/ ListCount
    \/ ListFetch
    \/ ListReturn

SpecRegex == InitRegex /\ [][NextRegex]_vars

-----------------------------------------------------------------------------
(* get_chat_session *)

\* ChatSession.objects.get(id=session_id) and the except clause: a string that
\* is no ObjectId fails the field validation (ValidationError, not caught), an
\* unknown id raises DoesNotExist (404)
GetChatSession(s) ==
    /\ pc = "idle"
    /\ call' = Some([kind |-> "get_session", session_id |-> s])
    /\ resp' = IF ~IsValidOid(s) THEN [status |-> 500, body |-> None]
               ELSE IF ObjectId(s) \notin DOMAIN sessions
               THEN [status |-> 404, body |-> None]
               ELSE [status |-> 200,
                     body |-> Some([id |-> Str(ObjectId(s)),
                                    created_at |-> sessions[ObjectId(s)].created_at,
                                    updated_at |-> sessions[ObjectId(s)].updated_at,
                                    active |-> sessions[ObjectId(s)].active])]
    /\ UNCHANGED <<sessions, messages, pc, req, query, total, qlog, prev, dirty,
                   chat_calls, suggestion_calls>>

GetIds == {"5e01", "5e02", "5e04", BadHex}

\* Stores of up to two sessions, active or not, with their timestamps
InitGet ==
    /\ \E ids \in SUBSET {ObjectId("5e01"), ObjectId("5e02")} :
          \E a \in [ids -> BOOLEAN] : \E t \in [ids -> Times] :
             sessions = [id \in ids |-> [DefaultSession(t[id]) EXCEPT !.active = a[id]]]
    /\ messages = {}
    /\ pc = "idle" /\ req = NoReq /\ query = EmptyQuery /\ total = 0
    /\ resp = NoResp /\ qlog = <<>> /\ prev = None /\ dirty = FALSE
    /\ call = None /\ chat_calls = <<>> /\ suggestion_calls = <<>>

NextGet ==
    \/ \E s \in GetIds : GetChatSession(s)
    \/ CreateChatSession

SpecGet == InitGet /\ [][NextGet]_vars

-----------------------------------------------------------------------------
(* create_message and create_bulk_messages *)

\* ChatMessageService.create_chat_message: the message is stored under a new
\* id with the clock's reading as created_at
NewMessage(i, d, t) == Msg(i, d.sender, d.session_id, t)

Trigger(m) == [message_id |-> Str(m.id), session_id |-> m.session_id]

\* A faulty variant: suggestion_mode not consulted
ChatTriggersAiOnly(ai_enabled, suggestion_mode, m) ==
    IF ai_enabled THEN <<Trigger(m)>> ELSE <<>>

\* if ai_enabled and not suggestion_mode: trigger_chat_workflow(...)
ChatTriggers(ai_enabled, suggestion_mode, m) ==
    IF ai_enabled /\ ~suggestion_mode THEN <<Trigger(m)>> ELSE <<>>

\* elif not ai_enabled and suggestion_mode: trigger_suggestion_workflow(...)
SuggestionTriggers(ai_enabled, suggestion_mode, m) ==
    IF ai_enabled /\ ~suggestion_mode THEN <<>>
    ELSE IF ~ai_enabled /\ suggestion_mode THEN <<Trigger(m)>> ELSE <<>>

MessageData ==
    [session_id : {"5e01", "5e02"}, sender : {"u1"},
     ai_enabled : BOOLEAN, suggestion_mode : BOOLEAN]

CreateMessage(d) ==
    /\ Cardinality(messages) < MaxMessages
    /\ \E t \in Times :
          LET m == NewMessage(Cardinality(messages) + 1, d, t) IN
          /\ messages' = messages \cup {m}
          /\ call' = Some([kind |-> "create", ai_enabled |-> d.ai_enabled,
                           suggestion_mode |-> d.suggestion_mode, created |-> <<m>>,
                           status |-> 200])
          /\ chat_calls' = ChatTriggers(d.ai_enabled, d.suggestion_mode, m)
          /\ suggestion_calls' = SuggestionTriggers(d.ai_enabled, d.suggestion_mode, m)
    /\ UNCHANGED <<sessions, listVars>>

\* A faulty variant: the last message of the list taken for the latest
LatestMessageLast(created) == created[Len(created)]

\* max(created, key=lambda x: x.created_at): the first element with the
\* greatest created_at
LatestMessage(created) ==
    created[CHOOSE i \in 1..Len(created) :
               /\ \A j \in 1..Len(created) : created[j].created_at <= created[i].created_at
               /\ \A j \in 1..(i - 1) : created[j].created_at < created[i].created_at]

\* A bulk request: the messages of the batch (an array, possibly empty) and
\* the flags of its config
BulkData ==
    UNION {[messages : [1..n -> [session_id : {"5e01", "5e02"}, sender : {"u1"}]],
            ai_enabled : BOOLEAN, suggestion_mode : BOOLEAN] : n \in 0..MaxBatch}

\* The service stores one message per element of the batch; max() of an empty
\* list raises ValueError before the trigger
CreateBulkMessages(bulk) ==
    /\ Cardinality(messages) + Len(bulk.messages) <= MaxMessages
    /\ \E ts \in [1..Len(bulk.messages) -> Times] :
          LET created == [i \in 1..Len(bulk.messages) |->
                             NewMessage(Cardinality(messages) + i, bulk.messages[i], ts[i])] IN
          /\ messages' = messages \cup {created[i] : i \in 1..Len(created)}
          /\ call' = Some([kind |-> "bulk", ai_enabled |-> bulk.ai_enabled,
                           suggestion_mode |-> bulk.suggestion_mode,
                           created |-> created,
                           status |-> IF created = <<>> THEN 500 ELSE 200])
          /\ chat_calls' = IF created = <<>> THEN <<>>
                           ELSE <<Trigger(LatestMessage(created))>>
          /\ suggestion_calls' = <<>>
    /\ UNCHANGED <<sessions, listVars>>

InitMsg == InitConc

NextMsg ==
    \/ \E d \in MessageData : CreateMessage(d)
    \/ \E b \in BulkData : CreateBulkMessages(b)

SpecMsg == InitMsg /\ [][NextMsg]_vars

-----------------------------------------------------------------------------
(* What the claims say of a list response, stated on the query parameters   *)
(* and the stored documents, not on the filter dict                         *)

\* the same character, or the two cases of one letter
SameIgnoringCase(c, d) == c = d \/ {c, d} = {"a", "A"} \/ {c, d} = {"b", "B"}

\* text f occurs in text t as a contiguous substring, ignoring letter case
ContainsIgnoreCase(f, t) ==
    \E k \in 1..(Len(t) - Len(f) + 1) :
        \A i \in 1..Len(f) : SameIgnoringCase(f[i], t[k + i - 1])

\* the stored session id satisfies every filter the request supplies
Satisfies(id, r) ==
    LET d == sessions[id] IN
    /\ r.client_id # None => d.client # None /\ Str(Val(d.client)) = Val(r.client_id)
    /\ r.client_channel # None =>
           d.client_channel # None /\ Str(Val(d.client_channel)) = Val(r.client_channel)
    /\ r.active # None => (d.active <=> Val(r.active))
    /\ r.handover # None => (d.has_handover <=> Val(r.handover))
    /\ r.start_date # None => Val(r.start_date) <= d.updated_at
    /\ r.end_date # None => d.updated_at <= Val(r.end_date)
    /\ r.session_id # None =>
           d.session_id # None /\ ContainsIgnoreCase(Val(r.session_id), Val(d.session_id))
    /\ r.user_id # None => \E m \in messages : m.sender = Val(r.user_id) /\ m.session = id

SatisfyingIds(r) == {id \in DOMAIN sessions : Satisfies(id, r)}

Inverted(r) ==
    r.start_date # None /\ r.end_date # None /\ Val(r.end_date) < Val(r.start_date)

WellFormedIds(r) ==
    /\ r.client_id # None => Val(r.client_id) \in HexStrings
    /\ r.client_channel # None => Val(r.client_channel) \in HexStrings

SessionQueries == {i \in 1..Len(qlog) : qlog[i] \in {"sessions.count", "sessions.find"}}

\* C1: for a valid filter combination (date range not inverted, ids well formed)
\* the request succeeds and its total is the number of stored sessions that
\* satisfy every supplied filter, whatever skip and limit are.
C1_TotalIsMatchCount ==
    (pc = "done" /\ ~Inverted(req) /\ WellFormedIds(req)) =>
        /\ resp.status = 200
        /\ resp.total = Cardinality(SatisfyingIds(req))

C1_Witness ==
    /\ pc = "done" /\ resp.status = 200 /\ Supplied(req) = MaxSupplied
    /\ resp.total = 2 /\ Len(resp.sessions) = 1 /\ req.skip = 1

\* C2: a request whose end_date is before its start_date is answered 400,
\* whatever the other parameters are, and no store query has been issued.
C2_InvertedRangeIs400 ==
    (pc = "done" /\ Inverted(req)) => (resp.status = 400 /\ qlog = <<>>)

C2_Witness ==
    /\ pc = "done" /\ Inverted(req) /\ req.client_id = Some(BadHex) /\ resp.status = 400

NoMessageFrom(r) == r.user_id # None /\ ~\E m \in messages : m.sender = Val(r.user_id)

\* C5 as stated: a user_id without messages gives an empty page and total 0
\* without a session query, whatever the other filters are.
C5_Original ==
    (pc = "done" /\ NoMessageFrom(req) /\ ~Inverted(req)) =>
        /\ resp = [status |-> 200, sessions |-> <<>>, total |-> 0]
        /\ SessionQueries = {}

\* C5 amended: the same, for requests whose client_id and client_channel are
\* well-formed ids; a malformed one is answered 500, also without a session query.
C5_EmptyForUnknownSender ==
    (pc = "done" /\ NoMessageFrom(req) /\ ~Inverted(req)) =>
        /\ SessionQueries = {}
        /\ resp = IF WellFormedIds(req) THEN [status |-> 200, sessions |-> <<>>, total |-> 0]
                  ELSE [status |-> 500, sessions |-> <<>>, total |-> 0]

C5_Witness ==
    /\ pc = "done" /\ NoMessageFrom(req) /\ req.active = Some(TRUE)
    /\ messages # {} /\ Cardinality(SatisfyingIds([req EXCEPT !.user_id = None])) = 2
    /\ resp.status = 200 /\ resp.total = 0

-----------------------------------------------------------------------------
(* Pagination *)

SeqSet(q) == {q[i] : i \in 1..Len(q)}

PageIds == [i \in 1..Len(resp.sessions) |-> resp.sessions[i].id]

SameFilter(a, b) == [a EXCEPT !.skip = 0, !.limit = 1] = [b EXCEPT !.skip = 0, !.limit = 1]

\* the request in hand asks for the page that follows the previous response's
NextPageOf(p) ==
    /\ SameFilter(p.req, req)
    /\ p.req.skip = 0 /\ req.skip = p.req.limit /\ req.limit = p.req.limit

\* C3 as stated: on an unchanged store the page is the elements
\* skip .. skip+limit-1 of the matching sessions in descending updated_at
\* order, of length min(limit, max(0, total - skip)), and the first page and
\* the one that follows it are disjoint and, when two pages suffice, cover
\* every matching session, also when sessions share an updated_at.
C3_Original ==
    (pc = "done" /\ resp.status = 200) =>
        /\ Len(resp.sessions) = Min(req.limit, Max(0, resp.total - req.skip))
        /\ \A i, j \in 1..Len(resp.sessions) :
              i < j => resp.sessions[i].updated_at >= resp.sessions[j].updated_at
        /\ (prev # None /\ NextPageOf(Val(prev))) =>
              /\ SeqSet(Val(prev).ids) \cap SeqSet(PageIds) = {}
              /\ resp.total <= 2 * req.limit =>
                    SeqSet(Val(prev).ids) \cup SeqSet(PageIds)
                       = {Str(id) : id \in SatisfyingIds(req)}

-----------------------------------------------------------------------------
(* Concurrent writes *)

\* C10 as stated: a successful list response holds at most total and at most
\* limit sessions, also when sessions are created or changed between the count
\* and the fetch.
C10_Original ==
    (pc = "done" /\ resp.status = 200) =>
        /\ Len(resp.sessions) <= resp.total
        /\ Len(resp.sessions) <= req.limit

\* C10 amended: the page holds at most limit sessions; it holds at most total
\* sessions when no session was written between the count and the fetch.
C10_PageWithinLimit ==
    (pc = "done" /\ resp.status = 200) =>
        /\ Len(resp.sessions) <= req.limit
        /\ ~dirty => Len(resp.sessions) <= resp.total

C10_Witness ==
    /\ pc = "done" /\ resp.status = 200 /\ dirty
    /\ Len(resp.sessions) > resp.total /\ Len(resp.sessions) = req.limit

-----------------------------------------------------------------------------
(* The session_id filter *)

LettersOnly(f) == \A i \in 1..Len(f) : f[i] \in Letters

InPage(id) == \E i \in 1..Len(resp.sessions) : resp.sessions[i].id = Str(id)

ContainsFilter(id) ==
    /\ sessions[id].session_id # None
    /\ ContainsIgnoreCase(Val(req.session_id), Val(sessions[id].session_id))

\* C9 as stated: the session_id filter matches a stored session exactly when
\* the filter text occurs in the stored session_id, ignoring case.
C9_Original ==
    (pc = "done" /\ resp.status = 200 /\ req.session_id # None) =>
        \A id \in DOMAIN sessions : InPage(id) <=> ContainsFilter(id)

\* C9 amended: that holds for a filter text made of letters only; the text is
\* a regular expression, and with a metacharacter in it the match differs.
C9_LiteralFilterIsSubstring ==
    (pc = "done" /\ resp.status = 200 /\ req.session_id # None
        /\ LettersOnly(Val(req.session_id))) =>
        \A id \in DOMAIN sessions : InPage(id) <=> ContainsFilter(id)

C9_Witness ==
    /\ pc = "done" /\ resp.status = 200
    /\ req.session_id = Some(<<"a", "b">>)
    /\ sessions[ObjectId("5e01")].session_id = Some(<<"B", "A", "B">>)
    /\ Len(resp.sessions) = 1

-----------------------------------------------------------------------------
(* get_chat_session *)

\* C8 as stated: 404 for every requested id that identifies no stored session,
\* 200 with the session's id, created_at, updated_at and active otherwise.
C8_Original ==
    (call # None /\ Val(call).kind = "get_session") =>
        LET s == Val(call).session_id
            hit == {id \in DOMAIN sessions : Str(id) = s} IN
        IF hit = {} THEN resp.status = 404
        ELSE /\ resp.status = 200
             /\ \E id \in hit :
                   resp.body = Some([id |-> s, created_at |-> sessions[id].created_at,
                                     updated_at |-> sessions[id].updated_at,
                                     active |-> sessions[id].active])

-----------------------------------------------------------------------------
(* Workflow triggers *)

TriggerFor(m) == [message_id |-> m.id.oid, session_id |-> m.session_id]

\* C6: create_message triggers, for the message it stored, the chat workflow
\* once when only ai_enabled is set, the suggestion workflow once when only
\* suggestion_mode is set, and nothing when both or neither are set; never both.
C6_SingleCreateTriggers ==
    (call # None /\ Val(call).kind = "create") =>
        LET c == Val(call)
            m == c.created[1] IN
        /\ m \in messages
        /\ (c.ai_enabled /\ ~c.suggestion_mode) =>
               (chat_calls = <<TriggerFor(m)>> /\ suggestion_calls = <<>>)
        /\ (~c.ai_enabled /\ c.suggestion_mode) =>
               (chat_calls = <<>> /\ suggestion_calls = <<TriggerFor(m)>>)
        /\ (c.ai_enabled <=> c.suggestion_mode) =>
               (chat_calls = <<>> /\ suggestion_calls = <<>>)
        /\ ~(chat_calls # <<>> /\ suggestion_calls # <<>>)

C6_Witness ==
    /\ call # None /\ Val(call).kind = "create"
    /\ ~Val(call).ai_enabled /\ Val(call).suggestion_mode
    /\ Len(suggestion_calls) = 1 /\ Cardinality(messages) = 2

====
